---- MODULE Spec2Model ----
(***************************************************************************)
(* The room session engine of the doodle backend: the socket handlers of   *)
(* src/server.js for one room, the per-connection round timers and the     *)
(* Rooms / Chats documents they load and save.                             *)
(*                                                                         *)
(* src/server.js holds two definitions of the connection block (lines      *)
(* 1-599 and 600-1112).  def selects the one that is loaded; the handlers  *)
(* that differ between the two have one operator per definition.           *)
(*                                                                         *)
(* Every handler is async: it loads a copy of the room document, works on  *)
(* the copy and saves it.  A handler is split at that gap into a Begin     *)
(* step (the findOne) and a Commit step (everything up to its save), so    *)
(* that handlers running on different connections interleave.  A save     *)
(* writes the paths the handler assigned (a mongoose document save), an    *)
(* updateOne / findOneAndUpdate acts on the stored document.               *)
(***************************************************************************)
EXTENDS Integers, Sequences, FiniteSets, TLC

----------------------------------------------------------------------------
(* Bounds of the model *)

\* user ids that send events
Users == {"u1", "u2"}
\* socket connections; socket.id of a connection is its name
Conns == {"c1", "c2"}
\* the connection that sends the events a scenario keeps on one connection
OneConn == {"c1"}
\* answers saved with a score credit in one behaviour
MaxCredits == 2
\* joinRoom and leaveRoom events in one behaviour: two users join and leave again
MaxMoves == 4
\* turns counted in one game: one more than two participants draw in three rounds;
\* the turns after these are played and not counted
MaxTurns == 7
\* reveal delays (setTimeout of the expiry branch) pending on one connection
MaxPending == 1
\* ticks of the interval from a round's start to its expiry
RoundTicks == 2

----------------------------------------------------------------------------
(* Program constants *)

Defs == {1, 2}
\* roomSchema.maxRounds default; createRoom passes no maxRounds
MaxRoundsDefault == 3
\* nextTurn (first definition) ends the game when maxRounds <= 2
GameOverThreshold == 2
basePoints == 50
bonusPoints == 50
NoUser == "none"
\* hostId of the room: the user whose createRoom request made it
hostId == "u1"
\* nextTurn's word when the pool is empty
PlaceholderWord == "current word"
\* what generateWords can return to createRoom: [] from its catch block, or words
GenResults == {<<>>, <<"cat">>}
\* texts a client sends as an answer
AnswerTexts == {" CAT ", ""}

----------------------------------------------------------------------------
(* Pure helpers *)

\* (answer || "").trim().toLowerCase()
Norm(s) == IF s = " CAT " THEN "cat" ELSE s

\* Array.prototype.find / some on participants by user id: the first index, 0 if none
IndexOf(parts, u) ==
  IF \E i \in 1..Len(parts) : parts[i].userId = u
  THEN CHOOSE i \in 1..Len(parts) :
         /\ parts[i].userId = u
         /\ \A j \in 1..(i - 1) : parts[j].userId # u
  ELSE 0

HasUser(parts, u) == IndexOf(parts, u) # 0

\* participants.filter(p => toId(p.userId) !== uid)
FilterOut(parts, u) == SelectSeq(parts, LAMBDA p : p.userId # u)

\* wordList.splice(i, 1)
RemoveAt(s, i) == SubSeq(s, 1, i - 1) \o SubSeq(s, i + 1, Len(s))

\* delta = basePoints + Math.floor((remaining / total) * bonusPoints)
GuessPoints(remaining, total) == basePoints + ((remaining * bonusPoints) \div total)

\* Math.floor(delta * 0.2)
DrawerBonus(delta) == (delta * 2) \div 10

\* Array.prototype.sort((a, b) => b.score - a.score), a stable sort: e goes behind
\* the entries of the sorted s whose score is not below its own
InsertByScore(e, s) ==
  LET before == SelectSeq(s, LAMBDA x : x.score >= e.score)
      after  == SelectSeq(s, LAMBDA x : x.score < e.score)
  IN before \o <<e>> \o after

RECURSIVE SortByScore(_)
SortByScore(s) ==
  IF Len(s) = 0 THEN <<>>
  ELSE InsertByScore(s[Len(s)], SortByScore(SubSeq(s, 1, Len(s) - 1)))

\* participants.map(p => ({ username, score: p.score || 0 })).sort(...); the entry
\* names the participant
Leaderboard(parts) ==
  SortByScore([k \in 1..Len(parts) |-> [user |-> parts[k].userId, score |-> parts[k].score]])

NewParticipant(u, c) == [userId |-> u, score |-> 0, socketId |-> c]

RECURSIVE SumOver(_, _)
SumOver(f, S) ==
  IF S = {} THEN 0
  ELSE LET x == CHOOSE y \in S : TRUE IN f[x] + SumOver(f, S \ {x})

----------------------------------------------------------------------------
VARIABLES
  def,            \* which definition of the connection block is loaded
  room,           \* the stored Rooms document
  chat,           \* the stored Chats document of the room
  roundTimers,    \* per connection: roundTimers[roomId] and its interval
  pendingReveal,  \* per connection: reveal delays scheduled by expired timers
  ops,            \* per connection: the handler between its load and its save
  ioRoom,         \* the connections whose socket is in the socket.io room roomId
  nMoves,         \* history: joinRoom and leaveRoom events so far
  nCredits,       \* history: answers saved with a score credit so far
  credited,       \* history: users credited for a correct answer in the current turn
  drawCount,      \* history: per user, turns started as drawer in this game
  over,           \* history: the game-over branch of nextTurn ran in this game
  rosterStable,   \* history: no participant added or removed since startGame
  last            \* history: the last step, for the steps the properties name

vars == <<def, room, chat, roundTimers, pendingReveal, ops, ioRoom, nMoves, nCredits, credited, drawCount, over, rosterStable,
          last>>

hist == <<nMoves, nCredits, credited, drawCount, over, rosterStable>>

\* history: the handler that ran in the last step and the connection of its socket,
\* for the steps the properties name; NoStep for every other step
Step(name, c) == [name |-> name, conn |-> c]
NoStep == Step("-", "-")

\* The Rooms document created by createRoom: schema defaults, words from generateWords
NewRoom(words) ==
  [ participants      |-> <<>>,
    isStarted         |-> FALSE,
    isActive          |-> TRUE,
    currentTurnIndex  |-> 0,
    currentTurnUserId |-> NoUser,
    currentWord       |-> "",
    words             |-> words,
    maxRounds         |-> MaxRoundsDefault,
    leaderboard       |-> <<>>,
    roundStartSet     |-> FALSE ]

\* The Chats document created by createRoom: no words, no correct answers
NewChat == [ correctAnswers |-> {}, words |-> <<>> ]

\* no interval registered; superseded marks an interval or a reveal delay that
\* belongs to a turn that is no longer the current one
NoTimer == [ live |-> FALSE, left |-> 0, superseded |-> FALSE ]

\* what a handler keeps of the document it loaded
CopyOf(r) ==
  [ participants      |-> r.participants,
    currentTurnIndex  |-> r.currentTurnIndex,
    currentTurnUserId |-> r.currentTurnUserId,
    currentWord       |-> r.currentWord,
    maxRounds         |-> r.maxRounds,
    roundStartSet     |-> r.roundStartSet ]

\* stale: the participants array was replaced since the load;
\* superseded: a turn started since the load (submit) or since the timer was set (turn)
Idle == [ kind |-> "idle", user |-> NoUser, answer |-> "", isExist |-> FALSE,
          remaining |-> 0, stale |-> FALSE, superseded |-> FALSE,
          copy |-> CopyOf(NewRoom(<<>>)) ]

Init ==
  /\ def \in Defs
  /\ room \in {NewRoom(words) : words \in GenResults}
  /\ chat = NewChat
  /\ roundTimers = [c \in Conns |-> NoTimer]
  /\ pendingReveal = [c \in Conns |-> <<>>]
  /\ ops = [c \in Conns |-> Idle]
  /\ nMoves = 0
  /\ nCredits = 0
  /\ credited = {}
  /\ drawCount = [u \in Users |-> 0]
  /\ over = FALSE
  /\ rosterStable = FALSE
  /\ ioRoom = {}
  /\ last = NoStep

----------------------------------------------------------------------------
(* joinRoom *)

\* joinRoom up to its first await: socket.join(roomId), the load and the isExist test
JoinBegin(c, u) ==
  /\ ops[c].kind = "idle"
  /\ nMoves < MaxMoves
  /\ ops' = [ops EXCEPT ![c] = [Idle EXCEPT !.kind = "join", !.user = u,
                                           !.isExist = HasUser(room.participants, u)]]
  /\ ioRoom' = ioRoom \cup {c}
  /\ nMoves' = nMoves + 1
  /\ last' = NoStep
  /\ UNCHANGED <<def, room, chat, roundTimers, pendingReveal, nCredits, credited, drawCount, over, rosterStable>>

\* a rejoin that writes a fresh participant entry over the existing one
ReplaceEntry(parts, u, c) ==
  IF \E i \in 1..Len(parts) : parts[i].userId = u
  THEN [parts EXCEPT ![CHOOSE i \in 1..Len(parts) : parts[i].userId = u] =
                       [userId |-> u, score |-> 0, socketId |-> c]]
  ELSE parts

\* { $set: { "participants.$.socketId": socket.id } } on the first element that matches
SetSocketId(parts, u, c) ==
  IF HasUser(parts, u)
  THEN [parts EXCEPT ![IndexOf(parts, u)].socketId = c]
  ELSE parts

\* { $push: { participants: { userId, username, score: 0, socketId } } }
PushParticipant(parts, u, c) == Append(parts, NewParticipant(u, c))

\* joinRoom from its updateOne on: the update acts on the stored document
JoinCommit(c) ==
  /\ ops[c].kind = "join"
  /\ LET u == ops[c].user IN
     IF ops[c].isExist
     THEN /\ room' = [room EXCEPT !.participants = SetSocketId(@, u, c)]
          /\ last' = Step("rejoin", c)
          /\ UNCHANGED rosterStable
     ELSE /\ room' = [room EXCEPT !.participants = PushParticipant(@, u, c)]
          /\ last' = NoStep
          /\ rosterStable' = FALSE
  /\ ops' = [ops EXCEPT ![c] = Idle]
  /\ UNCHANGED <<def, chat, roundTimers, pendingReveal,
                 ioRoom, nMoves, nCredits, credited, drawCount, over>>

----------------------------------------------------------------------------
(* leaveRoom *)

\* leaveRoom up to its save: socket.leave(roomId) and the load
LeaveBegin(c, u) ==
  /\ ops[c].kind = "idle"
  /\ nMoves < MaxMoves
  /\ ops' = [ops EXCEPT ![c] = [Idle EXCEPT !.kind = "leave", !.user = u,
                                           !.copy = CopyOf(room)]]
  /\ ioRoom' = ioRoom \ {c}
  /\ nMoves' = nMoves + 1
  /\ last' = NoStep
  /\ UNCHANGED <<def, room, chat, roundTimers, pendingReveal, nCredits, credited, drawCount, over, rosterStable>>

\* a save that replaced the participants array: saves of array elements loaded
\* before it fail with a VersionError
MarkStale(o) == [cc \in Conns |-> IF o[cc].kind = "submit"
                                  THEN [o[cc] EXCEPT !.stale = TRUE] ELSE o[cc]]

\* room.participants = filter(...); await room.save(): the filtered copy replaces
\* the stored array when the filter removed an element
LeaveCommit(c) ==
  /\ ops[c].kind = "leave"
  /\ LET u    == ops[c].user
         copy == ops[c].copy
         kept == FilterOut(copy.participants, u)
     IN IF kept # copy.participants
        THEN /\ room' = [room EXCEPT !.participants = kept]
             /\ ops' = [MarkStale(ops) EXCEPT ![c] = Idle]
             /\ rosterStable' = FALSE
        ELSE /\ room' = room
             /\ ops' = [ops EXCEPT ![c] = Idle]
             /\ rosterStable' = rosterStable
  /\ last' = NoStep
  /\ UNCHANGED <<def, chat, roundTimers, pendingReveal,
                 ioRoom, nMoves, nCredits, credited, drawCount, over>>

----------------------------------------------------------------------------
(* submitAnswer *)

InflightSubmits == Cardinality({cc \in Conns : ops[cc].kind = "submit"})

\* Math.max(roundDuration * 1000 - (Date.now() - roundStartTime), 0) in ticks: what
\* the interval of the current turn has left, 0 once it has expired
Remaining ==
  IF \E cc \in Conns : roundTimers[cc].live /\ ~roundTimers[cc].superseded
  THEN LET cc == CHOOSE x \in Conns : roundTimers[x].live /\ ~roundTimers[x].superseded
       IN roundTimers[cc].left
  ELSE 0

\* submitAnswer up to its save: the load and the player lookup (no player: return)
SubmitBegin(c, u, a) ==
  /\ ops[c].kind = "idle"
  /\ HasUser(room.participants, u)
  /\ nCredits + InflightSubmits < MaxCredits
  /\ ops' = [ops EXCEPT ![c] = [Idle EXCEPT !.kind = "submit", !.user = u, !.answer = a,
                                           !.remaining = Remaining,
                                           !.copy = CopyOf(room)]]
  /\ last' = NoStep
  /\ UNCHANGED <<def, room, chat, roundTimers, pendingReveal, ioRoom, hist>>

\* givenAnswer === correctWord
IsCorrect(copy, a) == Norm(a) = Norm(copy.currentWord)

\* the drawer credited by the first definition: participants.find by currentTurnUserId
DrawerIndex1(copy) ==
  IF copy.currentTurnUserId # NoUser
  THEN IndexOf(copy.participants, copy.currentTurnUserId) ELSE 0

\* the second definition credits no drawer
DrawerIndex2(copy) == 0

DrawerIndex(copy) == IF def = 1 THEN DrawerIndex1(copy) ELSE DrawerIndex2(copy)

\* The scores of the copy after a correct answer worth delta: drawer.score += bonus,
\* then player.score += delta
CreditedScores(copy, u, delta) ==
  LET i == IndexOf(copy.participants, u)
      d == DrawerIndex(copy)
      withDrawer == IF d # 0
                    THEN [copy.participants EXCEPT ![d].score = @ + DrawerBonus(delta)]
                    ELSE copy.participants
  IN [withDrawer EXCEPT ![i].score = @ + delta]

\* room.save() of a copy whose element scores were assigned: $set of
\* participants.<k>.score for every element the handler changed
SaveScores(stored, before, after) ==
  [k \in 1..Len(stored) |->
     IF k <= Len(after) /\ after[k].score # before[k].score
     THEN [stored[k] EXCEPT !.score = after[k].score]
     ELSE stored[k]]

\* chatDoc.correctAnswers.push({ userId, ... })
RecordCorrect(ch, u) == [ch EXCEPT !.correctAnswers = @ \cup {u}]

\* whether the save of a correct answer goes through: with roundStartTime undefined
\* delta is NaN and the save is rejected; with the array replaced since the load it
\* fails with a VersionError
SaveGoesThrough(op) == op.copy.roundStartSet /\ ~op.stale

\* submitAnswer from the comparison to its save
SubmitCommit(c) ==
  /\ ops[c].kind = "submit"
  /\ LET u    == ops[c].user
         copy == ops[c].copy
     IN IF ~IsCorrect(copy, ops[c].answer)
        THEN \* delta = 0: no path is modified, the save writes nothing
             UNCHANGED <<room, chat, nCredits, credited>>
        ELSE /\ chat' = RecordCorrect(chat, u)
             /\ IF ~SaveGoesThrough(ops[c])
                THEN UNCHANGED <<room, nCredits, credited>>
                ELSE LET delta == GuessPoints(ops[c].remaining, RoundTicks)
                         after == CreditedScores(copy, u, delta)
                     IN /\ room' = [room EXCEPT !.participants =
                                      SaveScores(@, copy.participants, after)]
                        /\ nCredits' = nCredits + 1
                        /\ credited' = IF ops[c].superseded THEN credited
                                       ELSE credited \cup {u}
  /\ ops' = [ops EXCEPT ![c] = Idle]
  /\ last' = NoStep
  /\ UNCHANGED <<def, roundTimers, pendingReveal,
                 ioRoom, nMoves, drawCount, over, rosterStable>>

----------------------------------------------------------------------------
(* startRound, the interval and the reveal delay *)

\* a cancel that stops the interval and keeps its entry: clearInterval without delete
clearIntervalOnly(timers, c) == [timers EXCEPT ![c].live = FALSE]

\* clearRoomTimer(roomId) on the connection's own roundTimers
clearRoomTimer(timers, c) == [timers EXCEPT ![c] = NoTimer]

\* history: a turn starts, every interval still running belongs to an earlier turn
SupersedeTimers(timers) ==
  [cc \in Conns |-> IF timers[cc].live THEN [timers[cc] EXCEPT !.superseded = TRUE]
                    ELSE timers[cc]]

\* history: a turn starts, every reveal delay still pending belongs to an earlier turn
SupersedePending(pending) ==
  [cc \in Conns |-> [k \in 1..Len(pending[cc]) |-> TRUE]]

\* history: a turn starts, every answer and turn advance in flight was loaded before it
SupersedeOps(o) ==
  [cc \in Conns |-> IF o[cc].kind \in {"submit", "turn"}
                    THEN [o[cc] EXCEPT !.superseded = TRUE] ELSE o[cc]]

\* startRound: clearRoomTimer, then roundTimers[roomId] = setInterval(...)
startRound(timers, c) ==
  [SupersedeTimers(clearRoomTimer(timers, c))
     EXCEPT ![c] = [live |-> TRUE, left |-> RoundTicks, superseded |-> FALSE]]

\* one run of the interval callback with time left: only timerUpdate is emitted
TimerTick(c) ==
  /\ roundTimers[c].live
  /\ roundTimers[c].left > 1
  /\ roundTimers' = [roundTimers EXCEPT ![c].left = @ - 1]
  /\ last' = NoStep
  /\ UNCHANGED <<def, room, chat, pendingReveal, ops, ioRoom, hist>>

\* the run of the interval callback that finds no time left: clearRoomTimer and
\* setTimeout(..., 5000)
TimerExpire(c) ==
  /\ roundTimers[c].live
  /\ roundTimers[c].left = 1
  /\ Len(pendingReveal[c]) < MaxPending
  /\ roundTimers' = clearRoomTimer(roundTimers, c)
  /\ pendingReveal' = [pendingReveal EXCEPT ![c] = Append(@, roundTimers[c].superseded)]
  /\ last' = NoStep
  /\ UNCHANGED <<def, room, chat, ops, ioRoom, hist>>

----------------------------------------------------------------------------
(* startGame *)

ZeroCounts == [u \in Users |-> 0]

\* Picking the word of a turn: a random element of the pool, removed from it;
\* `empty` when the pool is empty
WordPicks(pool, empty) ==
  IF Len(pool) > 0
  THEN {[word |-> pool[i], rest |-> RemoveAt(pool, i)] : i \in 1..Len(pool)}
  ELSE {[word |-> empty, rest |-> pool]}

\* the fields startGame assigns before room.save()
StartedRoom(r, word) ==
  [r EXCEPT !.isStarted = TRUE,
            !.isActive = TRUE,
            !.currentTurnIndex = 0,
            !.maxRounds = IF r.maxRounds > 0 THEN r.maxRounds ELSE MaxRoundsDefault,
            !.currentTurnUserId = r.participants[1].userId,
            !.currentWord = word]

\* history of a game that starts with drawer u
StartHistory(u) ==
  /\ credited' = {}
  /\ drawCount' = [ZeroCounts EXCEPT ![u] = 1]
  /\ over' = FALSE
  /\ rosterStable' = TRUE
  /\ UNCHANGED <<ioRoom, nMoves, nCredits>>

\* a rejection that runs the timer clearing of lines 293-296 before the length check
StartGameRejectedLate(c) ==
  /\ Len(room.participants) < 2
  /\ last' = Step("needPlayers", c)
  /\ roundTimers' = clearRoomTimer(roundTimers, c)
  /\ UNCHANGED <<def, room, chat, pendingReveal, ops, ioRoom, hist>>

\* startGame on a room with fewer than 2 participants: errorMessage to the socket
\* of the request ("At least need 2 Players to start"), return
StartGameRejected(c) ==
  /\ Len(room.participants) < 2
  /\ last' = Step("needPlayers", c)
  /\ UNCHANGED <<def, room, chat, roundTimers, pendingReveal, ops, ioRoom, hist>>

\* startGame of the first definition: wordCount = (room.participants.length || 20) + 2,
\* the number of words it is about to ask generateWords for
wordCount(n) == (IF n # 0 THEN n ELSE 20) + 2

\* a startGame of the first definition whose call of generateWords is made and
\* awaited: the handler stays at line 321 for as long as the word source is silent
StartGame1Awaits(c) ==
  /\ roundTimers' = clearRoomTimer(roundTimers, c)
  /\ ops' = [ops EXCEPT ![c] = [Idle EXCEPT !.kind = "words"]]
  /\ UNCHANGED <<room, chat, pendingReveal, ioRoom, hist>>

\* startGame of the first definition: it clears the timer of the connection and
\* assigns to its copy, then generateWords(difficultyLevel, wordCategory, wordCount)
\* names two identifiers that are declared nowhere: the ReferenceError goes to
\* the catch block ("Failed to start game") before anything is saved
StartGame1(c) ==
  /\ roundTimers' = clearRoomTimer(roundTimers, c)
  /\ UNCHANGED <<room, chat, pendingReveal, ops, ioRoom, hist>>

\* startGame of the second definition, with startRound: the word is taken from
\* the words of the Chats document, "" when there is none
StartGame2(c) ==
  /\ \E pick \in WordPicks(chat.words, "") :
       /\ room' = [StartedRoom(room, pick.word) EXCEPT !.roundStartSet = TRUE]
       /\ chat' = [chat EXCEPT !.words = pick.rest]
  /\ roundTimers' = startRound(roundTimers, c)
  /\ pendingReveal' = SupersedePending(pendingReveal)
  /\ ops' = SupersedeOps(ops)
  /\ StartHistory(room.participants[1].userId)

\* startGame on a room with at least 2 participants
StartGame(c) ==
  /\ Len(room.participants) >= 2
  /\ IF def = 1 THEN StartGame1(c) ELSE StartGame2(c)
  /\ last' = Step("startGame", c)
  /\ UNCHANGED def

----------------------------------------------------------------------------
(* nextTurn *)

\* the reveal delay's callback of the first definition empties correctAnswers
ClearCorrect(ch) ==
  IF def = 1 THEN [ch EXCEPT !.correctAnswers = {}] ELSE ch

\* The reveal delay fires: its callback, then nextTurn up to the end of its guards.
\* not started: return; else clearRoomTimer; no participants: isStarted = false, save
\* the reveal delay's callback with nextTurn entered whatever isStarted is
RevealTimeoutUnguarded(c) ==
  /\ Len(pendingReveal[c]) > 0
  /\ ops[c].kind = "idle"
  /\ pendingReveal' = [pendingReveal EXCEPT ![c] = Tail(@)]
  /\ chat' = ClearCorrect(chat)
  /\ roundTimers' = clearRoomTimer(roundTimers, c)
  /\ IF Len(room.participants) = 0
     THEN /\ room' = [room EXCEPT !.isStarted = FALSE]
          /\ last' = NoStep
          /\ UNCHANGED ops
     ELSE /\ ops' = [ops EXCEPT ![c] = [Idle EXCEPT !.kind = "turn",
                                          !.superseded = Head(pendingReveal[c]),
                                          !.copy = CopyOf(room)]]
          /\ last' = NoStep
          /\ UNCHANGED room
  /\ UNCHANGED <<def, ioRoom, hist>>

RevealTimeout(c) ==
  /\ Len(pendingReveal[c]) > 0
  /\ ops[c].kind = "idle"
  /\ pendingReveal' = [pendingReveal EXCEPT ![c] = Tail(@)]
  /\ chat' = ClearCorrect(chat)
  /\ IF ~room.isStarted
     THEN /\ last' = NoStep
          /\ UNCHANGED <<room, roundTimers, ops>>
     ELSE /\ roundTimers' = clearRoomTimer(roundTimers, c)
          /\ IF Len(room.participants) = 0
             THEN /\ room' = [room EXCEPT !.isStarted = FALSE]
                  /\ last' = NoStep
                  /\ UNCHANGED ops
             ELSE /\ ops' = [ops EXCEPT ![c] = [Idle EXCEPT !.kind = "turn",
                                                  !.superseded = Head(pendingReveal[c]),
                                                  !.copy = CopyOf(room)]]
                  /\ last' = NoStep
                  /\ UNCHANGED room
  /\ UNCHANGED <<def, ioRoom, hist>>

\* first definition: if (currentTurnIndex === 0) maxRounds -= 1; then the index advances
Advance1(copy) ==
  [ maxRounds |-> IF copy.currentTurnIndex = 0 THEN copy.maxRounds - 1 ELSE copy.maxRounds,
    index     |-> (copy.currentTurnIndex + 1) % Len(copy.participants) ]

\* first definition: if (room.maxRounds <= 2)
IsOver1(adv) == adv.maxRounds <= GameOverThreshold

\* JavaScript values that are no number
Undefined == [isNum |-> FALSE, value |-> 0]
NotANumber == [isNum |-> FALSE, value |-> 1]

\* second definition: the index advances; currentRound is no path of roomSchema, so
\* the loaded document has none and currentRound += 1 gives NaN
Advance2(copy) ==
  LET index == (copy.currentTurnIndex + 1) % Len(copy.participants)
  IN [ index        |-> index,
       currentRound |-> IF index = 0 THEN NotANumber ELSE Undefined ]

\* second definition: if (room.currentRound > room.maxRounds), false for NaN and undefined
IsOver2(adv, copy) == adv.currentRound.isNum /\ adv.currentRound.value > copy.maxRounds

\* room.save() of nextTurn: the scalar paths it assigned, from the copy
\* the save of a turn with the round count of the first definition applied to it:
\* maxRounds goes down by one each time the index leaves 0
SaveTurnCounting(stored, index, drawer, word) ==
  [stored EXCEPT !.currentTurnIndex = index,
                 !.currentTurnUserId = drawer,
                 !.currentWord = word,
                 !.maxRounds = IF stored.currentTurnIndex = 0 THEN @ - 1 ELSE @]

SaveTurn(stored, index, drawer, word) ==
  [stored EXCEPT !.currentTurnIndex = index,
                 !.currentTurnUserId = drawer,
                 !.currentWord = word]

TurnsStarted == SumOver(drawCount, Users)

\* history of a turn that starts with drawer u; the count stops at MaxTurns
TurnHistory(u) ==
  /\ credited' = {}
  /\ drawCount' = IF TurnsStarted < MaxTurns
                  THEN [drawCount EXCEPT ![u] = @ + 1]
                  ELSE drawCount
  /\ UNCHANGED <<ioRoom, nMoves, nCredits, over, rosterStable>>

\* nextTurn of the first definition after its guards
nextTurn1(c) ==
  LET copy == ops[c].copy
      adv  == Advance1(copy)
  IN IF IsOver1(adv)
     THEN \* "Game over!", showResult, the 12 s cleanup of the Chats document;
          \* return: nothing is saved
          /\ over' = TRUE
          /\ ops' = [ops EXCEPT ![c] = Idle]
          /\ UNCHANGED <<room, chat, roundTimers, pendingReveal, ioRoom, nMoves, nCredits,
                         credited, drawCount, rosterStable>>
     ELSE /\ \E pick \in WordPicks(room.words, PlaceholderWord) :
               LET drawer == copy.participants[adv.index + 1].userId
               IN /\ room' = [SaveTurn(room, adv.index, drawer, pick.word)
                                EXCEPT !.words = pick.rest,
                                       !.maxRounds = adv.maxRounds,
                                       !.roundStartSet = TRUE]
                  /\ TurnHistory(drawer)
          /\ roundTimers' = startRound(roundTimers, c)
          /\ pendingReveal' = SupersedePending(pendingReveal)
          /\ ops' = [SupersedeOps(ops) EXCEPT ![c] = Idle]
          /\ UNCHANGED chat

\* nextTurn of the second definition after its guards
nextTurn2(c) ==
  LET copy == ops[c].copy
      adv  == Advance2(copy)
  IN IF IsOver2(adv, copy)
     THEN \* isStarted = false, isActive = false, the leaderboard, save
          /\ room' = [room EXCEPT !.isStarted = FALSE, !.isActive = FALSE,
                                  !.currentTurnIndex = adv.index,
                                  !.leaderboard = Leaderboard(copy.participants)]
          /\ over' = TRUE
          /\ ops' = [ops EXCEPT ![c] = Idle]
          /\ UNCHANGED <<chat, roundTimers, pendingReveal, ioRoom, nMoves, nCredits,
                         credited, drawCount, rosterStable>>
     ELSE /\ \E pick \in WordPicks(chat.words, PlaceholderWord) :
               LET drawer == copy.participants[adv.index + 1].userId
               IN /\ room' = [SaveTurn(room, adv.index, drawer, pick.word)
                                EXCEPT !.roundStartSet = TRUE]
                  /\ chat' = [chat EXCEPT !.words = pick.rest]
                  /\ TurnHistory(drawer)
          /\ roundTimers' = startRound(roundTimers, c)
          /\ pendingReveal' = SupersedePending(pendingReveal)
          /\ ops' = [SupersedeOps(ops) EXCEPT ![c] = Idle]

\* nextTurn from its game-over check to its save and startRound
TurnCommit(c) ==
  /\ ops[c].kind = "turn"
  /\ IF def = 1 THEN nextTurn1(c) ELSE nextTurn2(c)
  /\ last' = NoStep
  /\ UNCHANGED def

----------------------------------------------------------------------------
(* endGame *)

\* endGame with the room's 6-digit code: findOneAndUpdate({ roomId }, ...)
EndGame(c) ==
  /\ room' = [room EXCEPT !.isStarted = FALSE, !.isActive = FALSE]
  /\ roundTimers' = SupersedeTimers(roundTimers)
  /\ pendingReveal' = SupersedePending(pendingReveal)
  /\ ops' = SupersedeOps(ops)
  /\ last' = Step("endGame", c)
  /\ UNCHANGED <<def, chat, ioRoom, hist>>

----------------------------------------------------------------------------
Next ==
  \/ \E c \in Conns, u \in Users : JoinBegin(c, u)
  \/ \E c \in Conns : JoinCommit(c)
  \/ \E c \in Conns, u \in Users : LeaveBegin(c, u)
  \/ \E c \in Conns : LeaveCommit(c)
  \/ \E c \in Conns, u \in Users, a \in AnswerTexts : SubmitBegin(c, u, a)
  \/ \E c \in Conns : SubmitCommit(c)
  \/ \E c \in Conns : StartGameRejected(c)
  \/ \E c \in Conns : StartGame(c)
  \/ \E c \in Conns : TimerTick(c)
  \/ \E c \in Conns : TimerExpire(c)
  \/ \E c \in Conns : RevealTimeout(c)
  \/ \E c \in Conns : TurnCommit(c)
  \/ \E c \in Conns : EndGame(c)

\* every handler on every connection
Spec == Init /\ [][Next]_vars

----------------------------------------------------------------------------
(* Scenarios: the program with the clients' events restricted.  Every step of a *)
(* scenario is a step of Next.                                                  *)

\* Timers: startGame, the timers, nextTurn and endGame on every connection; the
\* participants join on one connection, nobody leaves or answers
NextTimers ==
  \/ \E c \in OneConn, u \in Users : JoinBegin(c, u)
  \/ \E c \in OneConn : JoinCommit(c)
  \/ \E c \in Conns : StartGameRejected(c)
  \/ \E c \in Conns : StartGame(c)
  \/ \E c \in Conns : TimerTick(c)
  \/ \E c \in Conns : TimerExpire(c)
  \/ \E c \in Conns : RevealTimeout(c)
  \/ \E c \in Conns : TurnCommit(c)
  \/ \E c \in Conns : EndGame(c)

SpecTimers == Init /\ [][NextTimers]_vars

\* Scores: answers on every connection; joinRoom, leaveRoom, startGame and the
\* timer on one connection, no turn advance
NextScores ==
  \/ \E c \in OneConn, u \in Users : JoinBegin(c, u)
  \/ \E c \in OneConn : JoinCommit(c)
  \/ \E c \in OneConn, u \in Users : LeaveBegin(c, u)
  \/ \E c \in OneConn : LeaveCommit(c)
  \/ \E c \in Conns, u \in Users, a \in AnswerTexts : SubmitBegin(c, u, a)
  \/ \E c \in Conns : SubmitCommit(c)
  \/ \E c \in OneConn : StartGameRejected(c)
  \/ \E c \in OneConn : StartGame(c)
  \/ \E c \in OneConn : TimerTick(c)
  \/ \E c \in OneConn : TimerExpire(c)

SpecScores == Init /\ [][NextScores]_vars

\* Turns: whole games on one connection, with participants joining and leaving;
\* nobody answers
NextTurns ==
  \/ \E c \in OneConn, u \in Users : JoinBegin(c, u)
  \/ \E c \in OneConn : JoinCommit(c)
  \/ \E c \in OneConn, u \in Users : LeaveBegin(c, u)
  \/ \E c \in OneConn : LeaveCommit(c)
  \/ \E c \in OneConn : StartGameRejected(c)
  \/ \E c \in OneConn : StartGame(c)
  \/ \E c \in OneConn : TimerTick(c)
  \/ \E c \in OneConn : TimerExpire(c)
  \/ \E c \in OneConn : RevealTimeout(c)
  \/ \E c \in OneConn : TurnCommit(c)

SpecTurns == Init /\ [][NextTurns]_vars

\* Turns with its scheduling: an interval that is registered runs, a reveal delay that
\* is pending fires, and a handler that waits on the store gets its answer
FairTurns ==
  /\ SpecTurns
  /\ WF_vars(\E c \in OneConn : TimerTick(c) \/ TimerExpire(c))
  /\ WF_vars(\E c \in OneConn : RevealTimeout(c))
  /\ WF_vars(\E c \in OneConn : TurnCommit(c))
  /\ WF_vars(\E c \in OneConn : JoinCommit(c) \/ LeaveCommit(c))

\* Ends: the games of Turns, with endGame sent on the same connection
NextEnds ==
  \/ \E c \in OneConn, u \in Users : JoinBegin(c, u)
  \/ \E c \in OneConn : JoinCommit(c)
  \/ \E c \in OneConn, u \in Users : LeaveBegin(c, u)
  \/ \E c \in OneConn : LeaveCommit(c)
  \/ \E c \in OneConn : StartGameRejected(c)
  \/ \E c \in OneConn : StartGame(c)
  \/ \E c \in OneConn : TimerTick(c)
  \/ \E c \in OneConn : TimerExpire(c)
  \/ \E c \in OneConn : RevealTimeout(c)
  \/ \E c \in OneConn : TurnCommit(c)
  \/ \E c \in OneConn : EndGame(c)

SpecEnds == Init /\ [][NextEnds]_vars

\* Joins: joinRoom on every connection; leaveRoom, startGame and answers on one
\* connection, the round's timer does not run
NextJoins ==
  \/ \E c \in Conns, u \in Users : JoinBegin(c, u)
  \/ \E c \in Conns : JoinCommit(c)
  \/ \E c \in OneConn, u \in Users : LeaveBegin(c, u)
  \/ \E c \in OneConn : LeaveCommit(c)
  \/ \E c \in OneConn, u \in Users, a \in AnswerTexts : SubmitBegin(c, u, a)
  \/ \E c \in OneConn : SubmitCommit(c)
  \/ \E c \in OneConn : StartGameRejected(c)
  \/ \E c \in OneConn : StartGame(c)

SpecJoins == Init /\ [][NextJoins]_vars

----------------------------------------------------------------------------
(* Properties *)

\* the connections whose interval is running
LiveTimers == {c \in Conns : roundTimers[c].live}

\* the step is a run of the interval callback of connection c: a tick or the expiry
IntervalRuns(c) ==
  /\ roundTimers[c].live
  /\ \/ /\ roundTimers'[c].live
        /\ roundTimers'[c].left = roundTimers[c].left - 1
     \/ /\ ~roundTimers'[c].live
        /\ Len(pendingReveal'[c]) = Len(pendingReveal[c]) + 1

\* the step is the end of the nextTurn that the handler of connection c had in flight
TurnApplied(c) == ops[c].kind = "turn" /\ ops'[c].kind = "idle"

\* C1: in every reachable state at most one round timer (interval) is live for the
\* room, whatever the interleaving of startGame from any connection, endGame
\* and timer expiry
C1_AtMostOneLiveTimer == Cardinality(LiveTimers) <= 1

\* C5: once a round's timer is superseded by startGame, endGame or a new round, no
\* run of its interval happens, and a turn advance that its reveal delay scheduled
\* changes neither the room nor the timers
C5_NoStaleTimerEffect ==
  [][\A c \in Conns :
       /\ roundTimers[c].superseded => ~IntervalRuns(c)
       /\ (TurnApplied(c) /\ ops[c].superseded)
            => UNCHANGED <<room, roundTimers, over>>]_vars

\* the scores of a participants array, in its order
Scores(parts) == [k \in 1..Len(parts) |-> parts[k].score]

\* the step is the end of a submitAnswer of connection c whose answer was correct
CorrectAnswerDone(c) ==
  /\ ops[c].kind = "submit"
  /\ ops'[c].kind = "idle"
  /\ IsCorrect(ops[c].copy, ops[c].answer)

\* what the submitAnswer in flight on connection c credits to the k-th participant
\* of the document it loaded
CreditOf(c, k) ==
  LET copy  == ops[c].copy
      delta == GuessPoints(ops[c].remaining, RoundTicks)
  IN CreditedScores(copy, ops[c].user, delta)[k].score - copy.participants[k].score

\* C2: when operations on the room overlap, the stored room reflects each of them:
\* a submitAnswer whose save goes through adds what it credits to the stored
\* scores, it does not put back the scores of the copy it loaded
C2_NoLostUpdate ==
  [][\A c \in Conns :
       (CorrectAnswerDone(c) /\ SaveGoesThrough(ops[c]))
         => \A k \in 1..Len(ops[c].copy.participants) :
              room'.participants[k].score = room.participants[k].score + CreditOf(c, k)]_vars

\* C3: within one round a user's score is increased by guess points at most once:
\* a correct submitAnswer of a user already credited in the round leaves every
\* score unchanged
C3_CreditOncePerRound ==
  [][\A c \in Conns :
       (CorrectAnswerDone(c) /\ ~ops[c].superseded /\ ops[c].user \in credited)
         => Scores(room'.participants) = Scores(room.participants)]_vars

\* every participant other than the drawer has been credited in the current round
AllGuessed ==
  /\ room.isStarted
  /\ \E k \in 1..Len(room.participants) :
       room.participants[k].userId # room.currentTurnUserId
  /\ \A k \in 1..Len(room.participants) :
       room.participants[k].userId # room.currentTurnUserId
         => room.participants[k].userId \in credited

\* C6: once every participant other than the drawer has guessed the word, the round
\* is resolved without waiting for the timer: the interval of the round runs no more
C6_ResolvesWhenAllGuessed ==
  [][AllGuessed => \A c \in Conns : ~roundTimers[c].superseded => ~IntervalRuns(c)]_vars

\* C4: in every reachable state in which the game is started and the participant
\* list is non-empty, currentTurnIndex is less than the number of participants
C4_TurnIndexInRange ==
  (room.isStarted /\ Len(room.participants) > 0)
    => room.currentTurnIndex < Len(room.participants)

\* the participants of the room, as a set of user ids
Members == {room.participants[k].userId : k \in 1..Len(room.participants)}

\* turns resolved in this game: every turn started but the current one, and the
\* current one too once the game is over
TurnsResolved == TurnsStarted - (IF over THEN 0 ELSE 1)

\* C7: over one game with an unchanged participant list, each participant is the
\* drawer maxRounds times by the time the game is over, and never more often
C7_EachDrawsMaxRounds ==
  rosterStable =>
    \A u \in Members :
      /\ drawCount[u] <= room.maxRounds
      /\ over => drawCount[u] = room.maxRounds

\* C8: with an unchanged list of N participants and maxRounds = R the game is over
\* on the resolution of turn N * R: not before it, and no turn is resolved after it
C8_OverAtTurnNR ==
  rosterStable =>
    /\ over => TurnsResolved = Len(room.participants) * room.maxRounds
    /\ ~over => TurnsResolved < Len(room.participants) * room.maxRounds

\* C9: a started game never has a turn whose currentWord is the empty string or
\* the placeholder: with the word pool empty the room goes to game over instead
C9_NoPlaceholderWord ==
  room.isStarted => room.currentWord \notin {"", PlaceholderWord}

\* C10: a joinRoom that found its user id in the participant list changes nothing
\* but the socketId of that user's entry: the length and the order of the list,
\* every score and currentTurnIndex stay as they are
C10_RejoinFrame ==
  [][\A c \in Conns :
       (ops[c].kind = "join" /\ ops[c].isExist /\ ops'[c].kind = "idle")
         => /\ Len(room'.participants) = Len(room.participants)
            /\ \A k \in 1..Len(room.participants) :
                 /\ room'.participants[k].userId = room.participants[k].userId
                 /\ room'.participants[k].score = room.participants[k].score
                 /\ room.participants[k].userId # ops[c].user
                      => room'.participants[k] = room.participants[k]
            /\ room'.currentTurnIndex = room.currentTurnIndex
            /\ [room' EXCEPT !.participants = room.participants] = room]_vars

\* a rejoin has just been handled in a started game in which a score was earned
C10_Witness ==
  /\ last.name = "rejoin"
  /\ room.isStarted
  /\ \E k \in 1..Len(room.participants) :
       /\ room.participants[k].score > 0
       /\ room.participants[k].socketId \notin OneConn

\* C11: in every reachable state each user id appears at most once in the
\* participant list, also when two joinRoom events for the same new user id are
\* handled concurrently
C11_UniqueUserIds ==
  \A i, j \in 1..Len(room.participants) :
    i # j => room.participants[i].userId # room.participants[j].userId

\* the interval of the current round is running
RoundRunning == \E c \in Conns : roundTimers[c].live /\ ~roundTimers[c].superseded

\* C12: when the current drawer leaves in a running round the round is resolved and
\* the turn goes to another participant: the room is never in a running round of
\* a started game whose drawer is not a participant
C12_DrawerIsParticipant ==
  (room.isStarted /\ RoundRunning) => room.currentTurnUserId \in Members

\* C13: a correct answer given with remaining of total time left credits the guesser
\* 50 + floor(remaining * 50 / total) points, a value in 50..100 (83 for 20 of 30),
\* and credits the drawer floor(points * 0.2) (16 for 83)
C13_PointsAndBonus ==
  \A c \in Conns :
    (/\ ops[c].kind = "submit"
     /\ IsCorrect(ops[c].copy, ops[c].answer)
     /\ ops[c].copy.roundStartSet)
    => LET copy   == ops[c].copy
           g      == IndexOf(copy.participants, ops[c].user)
           d      == IndexOf(copy.participants, copy.currentTurnUserId)
           points == 50 + ((ops[c].remaining * 50) \div RoundTicks)
       IN /\ points \in 50..100
          /\ (d # g) => CreditOf(c, g) = points
          /\ (d # 0 /\ d # g) => CreditOf(c, d) = (points * 2) \div 10

\* C14: a startGame on a room with fewer than 2 participants is answered with an
\* errorMessage and leaves the room document (started flag, turn index, drawer,
\* word, scores) and every round timer as they were
C14_RejectedLeavesRoom ==
  [][last'.name = "needPlayers" =>
       /\ Len(room.participants) < 2
       /\ room' = room
       /\ chat' = chat
       /\ roundTimers' = roundTimers
       /\ pendingReveal' = pendingReveal]_vars

\* a startGame was rejected in a started room with one participant left and the
\* round's interval running
C14_Witness ==
  /\ last.name = "needPlayers"
  /\ Len(room.participants) = 1
  /\ room.isStarted
  /\ RoundRunning

\* C15: startGame is accepted only in the lobby: a startGame on a room whose game is
\* already started is rejected and leaves the turn index, the drawer, the word, the
\* scores and the running timer as they were
C15_StartOnlyInLobby ==
  [][(room.isStarted /\ last'.name = "startGame") =>
       /\ room'.currentTurnIndex = room.currentTurnIndex
       /\ room'.currentTurnUserId = room.currentTurnUserId
       /\ room'.currentWord = room.currentWord
       /\ Scores(room'.participants) = Scores(room.participants)
       /\ roundTimers' = roundTimers]_vars

\* the user that joined the room on the socket of connection c, NoUser if none did
UserOf(c) ==
  IF \E k \in 1..Len(room.participants) : room.participants[k].socketId = c
  THEN room.participants[CHOOSE k \in 1..Len(room.participants) :
                           room.participants[k].socketId = c].userId
  ELSE NoUser

\* the socket of connection c is the socket of a participant other than the host
NonHost(c) == UserOf(c) # NoUser /\ UserOf(c) # hostId

\* C16: a startGame sent by a participant who is not the host is rejected: the room
\* document and the round timers stay as they were
C16_StartGameHostOnly ==
  [][\A c \in Conns :
       (last' = Step("startGame", c) /\ NonHost(c)) =>
         /\ room' = room
         /\ roundTimers' = roundTimers]_vars

\* C18: endGame ends the game only when the host requests it: an endGame sent from
\* the socket of a participant who is not the host leaves the started and active
\* flags and the rest of the room document as they were
C18_EndGameHostOnly ==
  [][\A c \in Conns :
       (last' = Step("endGame", c) /\ NonHost(c)) => room' = room]_vars

\* C19: when endGame has completed the room has no live round timer, so that no
\* tick follows it before the next startGame
C19_NoTimerAfterEndGame ==
  last.name = "endGame" => \A c \in Conns : ~roundTimers[c].live

\* C17: a startGame on a room in the lobby with at least 2 participants puts the
\* room in an active round: the game is started, the drawer is the participant at
\* index 0, a word is set and the round timer of the request's connection runs
C17_StartReachesRound ==
  [][\A c \in Conns :
       (last' = Step("startGame", c) /\ ~room.isStarted) =>
         /\ room'.isStarted
         /\ room'.currentTurnIndex = 0
         /\ room'.currentTurnUserId = room.participants[1].userId
         /\ room'.currentWord # ""
         /\ roundTimers'[c].live]_vars

\* C20: when the last participant has left, the room's timer is released: no run of
\* a round interval (tick or expiry) happens while the participant list is empty
C20_NoTickInEmptyRoom ==
  [][Len(room.participants) = 0 => \A c \in Conns : ~IntervalRuns(c)]_vars

\* the stored score of user u, a participant
ScoreOf(parts, u) == parts[IndexOf(parts, u)].score

\* C21: between two game starts the stored score of a participant never decreases,
\* in any interleaving of submitAnswer, joinRoom, leaveRoom and turn advances
C21_ScoreNeverDecreases ==
  [][\A u \in Users :
       (/\ HasUser(room.participants, u)
        /\ HasUser(room'.participants, u)
        /\ last'.name # "startGame")
       => ScoreOf(room'.participants, u) >= ScoreOf(room.participants, u)]_vars

\* the step is the end of a submitAnswer of connection c
SubmitDone(c) == ops[c].kind = "submit" /\ ops'[c].kind = "idle"

\* C22: a submitAnswer from the current drawer is a no-op: no participant's score
\* changes, also when the text equals the current word
C22_DrawerGuessIsNoOp ==
  [][\A c \in Conns :
       (/\ SubmitDone(c)
        /\ ops[c].user = ops[c].copy.currentTurnUserId
        /\ ops[c].user = room.currentTurnUserId)
       => Scores(room'.participants) = Scores(room.participants)]_vars

\* C23: a submitAnswer received while no round is running (in the lobby, in the
\* reveal delay after the expiry of the timer, after the game is over) changes no
\* score, also when the text equals the stored word
C23_NoScoreOutsideRound ==
  [][\A c \in Conns :
       (SubmitDone(c) /\ ops[c].remaining = 0 /\ ~RoundRunning)
       => Scores(room'.participants) = Scores(room.participants)]_vars

\* C24: a correct guess of a participant other than the drawer, worth d points,
\* raises the guesser's score by d and the drawer's score by floor(d * 0.2) and
\* leaves every other score as it was; an incorrect guess changes no score
C24_CreditFrame ==
  [][\A c \in Conns :
       (SubmitDone(c) /\ ops[c].copy.participants = room.participants)
       => LET copy == ops[c].copy
              g    == IndexOf(copy.participants, ops[c].user)
              dr   == IndexOf(copy.participants, copy.currentTurnUserId)
              d    == GuessPoints(ops[c].remaining, RoundTicks)
          IN IF ~IsCorrect(copy, ops[c].answer)
             THEN Scores(room'.participants) = Scores(room.participants)
             ELSE (copy.roundStartSet /\ dr # 0 /\ dr # g) =>
                    /\ Len(room'.participants) = Len(room.participants)
                    /\ \A k \in 1..Len(room.participants) :
                         room'.participants[k].score - room.participants[k].score =
                           IF k = g THEN d
                           ELSE IF k = dr THEN DrawerBonus(d) ELSE 0]_vars

\* C25: on every turn advance with N participants the new currentTurnIndex is
\* (old index + 1) mod N, and the round counter goes up by one on the advances
\* whose new index is 0: there the currentRound that nextTurn computes is a number
C25_RoundAdvancesOnWrap ==
  [][\A c \in Conns :
       (TurnApplied(c) /\ def = 2) =>
         LET adv == Advance2(ops[c].copy)
         IN /\ room'.currentTurnIndex =
                 (room.currentTurnIndex + 1) % Len(room.participants)
            /\ (adv.index = 0) => adv.currentRound.isNum]_vars

\* C26: after a startGame that starts the game every participant's score is 0 and
\* currentTurnIndex is 0, whatever the scores were before
C26_StartResetsScores ==
  [][(last'.name = "startGame" /\ room'.isStarted) =>
       /\ room'.currentTurnIndex = 0
       /\ \A k \in 1..Len(room'.participants) : room'.participants[k].score = 0]_vars

\* the step registers a new interval on connection c (startRound's setInterval)
TimerStarted(c) ==
  /\ roundTimers'[c] = [live |-> TRUE, left |-> RoundTicks, superseded |-> FALSE]
  /\ roundTimers'[c] # roundTimers[c]

\* C27: starting a round timer for a room that has a live timer is rejected: the
\* live timer keeps running and no new one is registered
C27_StartRejectedWhileLive ==
  [][LiveTimers # {} => \A c \in Conns : ~TimerStarted(c)]_vars

\* the expiry of an interval of connection c is being carried out: its reveal delay
\* is pending or the nextTurn it called is between its load and its save
ExpiryInProgress(c) == Len(pendingReveal[c]) > 0 \/ ops[c].kind = "turn"

\* C28: the expiry of a round's timer has its effect once: when a nextTurn applies
\* a turn advance, no second expiry is being carried out for the room, so that a
\* single round never produces two turn advances
C28_OneAdvancePerRound ==
  [][\A c \in Conns :
       (TurnApplied(c) /\ room' # room)
       => \A cc \in Conns \ {c} : ~ExpiryInProgress(cc)]_vars

\* the step is a nextTurn of connection c that gets past its isStarted guard and
\* so calls clearRoomTimer
TurnClears(c) == Len(pendingReveal'[c]) < Len(pendingReveal[c]) /\ room.isStarted

\* C29: cancelling the timer of a room is idempotent: with no timer registered it
\* changes nothing, cancelling twice gives the state of cancelling once, which has
\* no timer registered on the connection, and the timers of the other connections
\* are left as they are
C29_CancelIdempotent ==
  [][\A c \in Conns :
       LET once == clearRoomTimer(roundTimers, c)
       IN /\ clearRoomTimer(once, c) = once
          /\ once[c] = NoTimer
          /\ \A cc \in Conns \ {c} : once[cc] = roundTimers[cc]
          /\ (~roundTimers[c].live) => once = roundTimers
          /\ (TurnClears(c) /\ ~roundTimers[c].live) => roundTimers' = roundTimers]_vars

\* the nextTurn of an expired interval has cancelled again on its connection, where
\* the expiry had cancelled already
C29_Witness ==
  \E c \in Conns :
    /\ ops[c].kind = "turn"
    /\ room.isStarted
    /\ roundTimers[c] = NoTimer

\* C30: words are drawn without replacement: within one game no word is the
\* currentWord of two turns, so the word of a turn that nextTurn starts is never
\* the word of the turn before it
C30_NoWordTwice ==
  [][\A c \in Conns :
       (TurnApplied(c) /\ roundTimers'[c].live)
       => room'.currentWord # room.currentWord]_vars

\* the larger of two numbers
Max(a, b) == IF a >= b THEN a ELSE b

\* C31: at game start the number of words asked of the word source is
\* max(3 * participants, 20) + 2, for every participant count of at least 2
C31_WordBatchSize ==
  [][(last'.name = "startGame" /\ def = 1) =>
       wordCount(Len(room.participants)) = Max(3 * Len(room.participants), 20) + 2]_vars

\* the game has ended: a started game was ended by its last round or by endGame
GameOver == ~room.isStarted /\ ~room.isActive /\ room.roundStartSet

\* C32: at game over the leaderboard lists the participants by score, highest
\* first, participants of equal score in the order of the participant list
C32_LeaderboardSorted ==
  GameOver => room.leaderboard = Leaderboard(room.participants)

\* io.to(roomId).emit("timerUpdate" / "roundEnded") of the interval callback of the
\* second definition: the sockets that are in the socket.io room.  (The first
\* definition emits to the socketIds of the document startRound loaded; it never
\* registers an interval, since its startGame does not get to startRound.)
Recipients == ioRoom

\* C33: every tick and every round end of the room's timer is delivered to every
\* participant: when an interval callback runs, the socket stored for each
\* participant is among the sockets its events are emitted to
C33_TicksReachParticipants ==
  [][\A c \in Conns :
       IntervalRuns(c) =>
         \A k \in 1..Len(room.participants) :
           room.participants[k].socketId \in Recipients]_vars

\* the room is in a round or in the reveal of a round: its game is started
InRound == room.isStarted

\* C34: in every reachable state currentWord is non-empty exactly when the room's
\* game is started: non-empty throughout a started game, empty in the lobby and
\* after game over
C34_WordIffStarted == (room.currentWord # "") <=> InRound

C36_DrawerAtTurnIndex ==
  (room.isStarted /\ Len(room.participants) > 0) =>
    /\ room.currentTurnIndex < Len(room.participants)
    /\ room.participants[room.currentTurnIndex + 1].userId = room.currentTurnUserId

\* C37: a turn advance leaves the room's maxRounds unchanged: after any number of
\* turns the stored maxRounds is the value the room was started with
C37_TurnKeepsMaxRounds ==
  [][\A c \in Conns :
       TurnApplied(c) =>
         /\ room'.maxRounds = room.maxRounds
         /\ room'.maxRounds = MaxRoundsDefault]_vars

\* three turns of one game have started: the index has left 0 and come back to it
C37_Witness ==
  /\ room.isStarted
  /\ rosterStable
  /\ TurnsStarted >= 3
  /\ room.currentTurnIndex = 0
  /\ room.maxRounds = MaxRoundsDefault

\* C38: a turn advance that fires while the stored room is not started (one that the
\* reveal delay scheduled before an endGame, say) does nothing: the room is left as
\* it is, no timer is started or cleared, and nextTurn returns before it picks a turn
C38_AdvanceWhenNotStartedIsNoOp ==
  [][\A c \in Conns :
       (Len(pendingReveal'[c]) < Len(pendingReveal[c]) /\ ~room.isStarted) =>
         /\ room' = room
         /\ roundTimers' = roundTimers
         /\ ops'[c].kind # "turn"]_vars

\* a game with an unchanged list of participants was ended by endGame, and its last
\* reveal delay has fired since: no interval is live, nothing is pending
C38_Witness ==
  /\ ~room.isStarted
  /\ ~room.isActive
  /\ room.roundStartSet
  /\ rosterStable
  /\ Len(room.participants) >= 2
  /\ LiveTimers = {}
  /\ \A c \in Conns : pendingReveal[c] = <<>> /\ ops[c].kind = "idle"

\* C39: a started game whose participant list is non-empty and stays as it is reaches
\* game over, given that timers keep firing and store operations complete; and once
\* the game is over the room is not started and no timer is live
C39_GameReachesGameOver ==
  /\ (room.isStarted /\ rosterStable /\ Len(room.participants) > 0)
       ~> (over \/ ~rosterStable \/ last.name = "startGame")
  /\ [](over => (~room.isStarted /\ LiveTimers = {}))

====
